---------------------------- MODULE Spec2Model ----------------------------
(***************************************************************************)
(* Model of the Nexys A7 DMA audio demo (helloworld.c): the polling loop   *)
(* of main, the mode actions dma_sw_tone_gen, recv_wav and play_wav, the   *)
(* blocking DMA handshake of dma_send / dma_reset, the byte-wise serial    *)
(* receive of uart_recv and the edge detection of get_gpio_data.           *)
(*                                                                         *)
(* The program is sequential: pc is the position of the single thread of   *)
(* control and stack holds the return positions of the calls in progress.  *)
(* The devices (DMA engine, serial host) act through the Hw... and Host... *)
(* actions.  trace and dlog are history variables: trace lists the steps   *)
(* of the current main-loop iteration, dlog those of the latest DMA call.  *)
(*                                                                         *)
(* Spec is the whole program and FairSpec the same with fairness.  The     *)
(* other specifications run one piece of it on inputs main cannot supply:  *)
(* DmaSpec (dma_forward and dma_receive, which main never calls), GpioSpec *)
(* (get_gpio_data on every button level), PackSpec (the packing of the     *)
(* tone generator on every sample value) and DownscaleSpec (the downscale  *)
(* loop of play_wav on every 16-bit sample).                               *)
(***************************************************************************)
EXTENDS Integers, Sequences, FiniteSets, TLC

VARIABLES
    pc,               \* position of the thread of control
    stack,            \* return positions of the calls in progress
    mode,             \* device.mode
    last,             \* static GpioIn_Data last of get_gpio_data (levels only)
    data,             \* GpioIn_Data data of the current main-loop iteration
    file,             \* the first Window bytes of the AudioBuffer `file`
    wire,             \* bytes the serial host has sent and uart_recv has not read
    ur,               \* uart_recv frame: buffer offset, length, received_count
    nfiles,           \* number of files the host has transmitted
    tone_i,           \* i of dma_sw_tone_gen: words written to the tone buffer
    status,           \* status of dma_sw_tone_gen
    dma_data,         \* dma_data of play_wav (the downscaled samples)
    dma_data_length,  \* dma_data_length of play_wav
    sendArg,          \* buffer and length of the dma_send call in progress
    ret,              \* value returned by the latest dma_send
    dlog,             \* steps of the latest dma_send call
    trace,            \* steps of the current main-loop iteration
    dmaBusy,          \* XAxiDma_Busy: a transfer is in flight
    dmaResetDone,     \* XAxiDma_ResetIsDone
    oob,              \* an access outside the AudioBuffer has happened
    iter,             \* samples main has taken, counted up to 2
    sample,           \* sample of the for loop of dma_sw_tone_gen
    time,             \* time of dma_sw_tone_gen
    Y,                \* Y of dma_sw_tone_gen
    temp,             \* temp[0..3] of dma_sw_tone_gen
    buffer,           \* the tone buffer of dma_sw_tone_gen, word by word
    gpio,             \* gpio of dma_sw_tone_gen: the sample that ended its loop
    pins,             \* levels of the button inputs: up to the latest sample, and since
    played            \* what play_wav has sent since the latest recv_wav began

vars == <<pc, stack, mode, last, data, file, wire, ur, nfiles, tone_i, status,
          dma_data, dma_data_length, sendArg, ret, dlog, trace, dmaBusy,
          dmaResetDone, oob, iter, sample, time, Y,
          temp, buffer, gpio, pins, played>>

---------------------------------------------------------------------------
(* Bounds of the model *)

\* Bytes of the AudioBuffer held explicitly; no transmission is longer.
Window == 56
\* Sends of the tone buffer in one SwTone action before a button edge is due.
MaxToneSends == 2
\* Files the serial host transmits in one run.
MaxFiles == 1
\* Words dma_forward receives one by one (BUFFER_SIZE_WORDS, 256 in the code).
ForwardWords == 2

---------------------------------------------------------------------------
(* Program constants *)

max_file_size == 8388607
HeaderSize == 12
ToneBufferWords == 128
ToneSampleLimit == 256
TonePeriod == 48

DemoModes == {"PAUSED", "HW_TONE_GEN", "SW_TONE_GEN", "RECV_WAV_FILE",
              "PLAY_WAV_FILE"}

---------------------------------------------------------------------------
(* 32-bit unsigned arithmetic on pairs <<high 16 bits, low 16 bits>> *)

U32(n) == <<n \div 65536, n % 65536>>

U32Add(a, b) ==
    LET lo == a[2] + b[2]
        hi == a[1] + b[1] + (lo \div 65536)
    IN  <<hi % 65536, lo % 65536>>

U32Sub(a, b) ==
    LET lo == a[2] - b[2]
        borrow == IF lo < 0 THEN 1 ELSE 0
        hi == a[1] - b[1] - borrow
    IN  <<(hi + 65536) % 65536, (lo + 65536) % 65536>>

U32Lt(a, b) == a[1] < b[1] \/ (a[1] = b[1] /\ a[2] < b[2])

U32Half(a) == <<a[1] \div 2, ((a[1] % 2) * 32768) + (a[2] \div 2)>>

RECURSIVE BitAnd(_, _)
BitAnd(a, b) ==
    IF a = 0 \/ b = 0 THEN 0
    ELSE ((a % 2) * (b % 2)) + 2 * BitAnd(a \div 2, b \div 2)

Le32(n) == <<n % 256, (n \div 256) % 256, (n \div 65536) % 256,
             n \div 16777216>>

Count(s, e) == Cardinality({k \in 1..Len(s) : s[k] = e})

Has(s, e) == \E k \in 1..Len(s) : s[k] = e

---------------------------------------------------------------------------
(* Pure functions of the program *)

buf2u32(b0, b1, b2, b3) == <<(b3 * 256) + b2, (b1 * 256) + b0>>

\* The byte at offset off (a U32) of an AudioBuffer whose first Window bytes
\* are f; the bytes after the window are the zeros main wrote.
Byte(f, off) == IF off[1] = 0 /\ off[2] < Window THEN f[off[2]] ELSE 0

\* Whether the n bytes at offset off lie inside the AudioBuffer.
InBuffer(off, n) ==
    /\ U32Lt(off, U32(max_file_size))
    /\ U32Lt(U32Add(off, U32(n - 1)), U32(max_file_size))

Field32(f, off) ==
    buf2u32(Byte(f, off), Byte(f, U32Add(off, U32(1))),
            Byte(f, U32Add(off, U32(2))), Byte(f, U32Add(off, U32(3))))

overall_size(f) == Field32(f, U32(4))

fmt_chunk_size(f) == Field32(f, U32(16))

\* The data chunk looked for after a format chunk of 16 bytes, whatever
\* fmt_chunk_size says.
DataChunkAfterPlainFormat(f) == U32(36)

\* ptr after "ptr += 12; ptr += 8 + fmt_chunk_size": offset of Wav_DataRaw.
DataChunkOffset(f) == U32Add(U32(12), U32Add(U32(8), fmt_chunk_size(f)))

\* offset of wav_data
WavDataOffset(f) == U32Add(DataChunkOffset(f), U32(8))

\* The high byte of the stored word, without the offset.
DownscaleHighByte(w) == (w \div 256) % 256

\* (u8)((u16)(wav_data[i] + 32768) >> 8) for the u16 word w = wav_data[i]
Downscale(w) == (((w + 32768) % 65536) \div 256) % 256

\* A sample whose edge fields repeat the levels read.
GpioLevelsAsEdges(l, b, s) ==
    [buttons   |-> b,
     switches  |-> s,
     button_pe |-> b,
     button_ne |-> 255 - b,
     switch_pe |-> s,
     switch_ne |-> 65535 - s]

\* get_gpio_data: the sample for levels b (buttons) and s (switches) read
\* when the previous sample was l.
get_gpio_data(l, b, s) ==
    [buttons   |-> b,
     switches  |-> s,
     button_pe |-> BitAnd(b, 255 - l.buttons),
     button_ne |-> BitAnd(255 - b, l.buttons),
     switch_pe |-> BitAnd(s, 65535 - l.switches),
     switch_ne |-> BitAnd(65535 - s, l.switches)]


\* Y of the for loop of dma_sw_tone_gen for time = 0..47, as the stores
\* into u8 truncate it: (A*sin(2*3.14159*f*time/96000) + A)*(127/A) with
\* A = 2.0 and f = 2000.
SineTable ==
    <<127, 143, 159, 175, 190, 204, 216, 227, 236, 244, 249, 252,
      253, 252, 249, 244, 236, 227, 216, 204, 190, 175, 159, 143,
      127, 110,  94,  78,  63,  49,  37,  26,  17,   9,   4,   1,
        0,   1,   4,   9,  17,  26,  37,  49,  63,  78,  94, 110>>

ToneY(t) == SineTable[t + 1]

\* The samples of temp packed in the order they were stored.
PackInOrder(t) == <<(t[0] * 256) + t[1], (t[2] * 256) + t[3]>>

\* The two words packed from temp: buffer[i] and buffer[i+1].
Pack(t) == <<(t[3] * 256) + t[2], (t[1] * 256) + t[0]>>

\* The tone buffer after the words of temp are written at i and i+1.
WriteWords(buf, i, t) ==
    [k \in DOMAIN buf |-> IF k = i     THEN Pack(t)[1]
                          ELSE IF k = i + 1 THEN Pack(t)[2]
                          ELSE buf[k]]

\* Transition reading the button levels instead of the positive edges.
TransitionOnLevel(m, d) ==
    CASE d.buttons = 1  -> "PAUSED"
      [] d.buttons = 4  -> "RECV_WAV_FILE"
      [] d.buttons = 8  -> "PLAY_WAV_FILE"
      [] d.buttons = 16 -> "SW_TONE_GEN"
      [] OTHER          -> m

\* The transition switch with the case for 0x02 compiled in.
TransitionWithHwTone(m, d) ==
    CASE d.button_pe = 1  -> "PAUSED"
      [] d.button_pe = 2  -> "HW_TONE_GEN"
      [] d.button_pe = 4  -> "RECV_WAV_FILE"
      [] d.button_pe = 8  -> "PLAY_WAV_FILE"
      [] d.button_pe = 16 -> "SW_TONE_GEN"
      [] OTHER            -> m

\* The transition switch of main on data.button_pe.
Transition(m, d) ==
    CASE d.button_pe = 1  -> "PAUSED"
      [] d.button_pe = 4  -> "RECV_WAV_FILE"
      [] d.button_pe = 8  -> "PLAY_WAV_FILE"
      [] d.button_pe = 16 -> "SW_TONE_GEN"
      [] OTHER            -> m

\* The dispatch switch of main on device.mode: the position it continues at.
Dispatch(m) ==
    CASE m = "RECV_WAV_FILE" -> "recv_wav"
      [] m = "PLAY_WAV_FILE" -> "play_wav"
      [] m = "SW_TONE_GEN"   -> "tone_gen"
      [] OTHER               -> "main_sample"

\* ToneBreak reading the button levels instead of the positive edges.
ToneBreakOnLevel(g) == g.buttons # 0

\* The exit test of the send loop of dma_sw_tone_gen.
ToneBreak(g) == g.button_pe # 0

\* PlayAborts testing the second byte of the file instead of the first.
PlayAbortsOnSecondByte(f) == f[1] = 0

\* The sentinel test of play_wav.
PlayAborts(f) == f[0] = 0

---------------------------------------------------------------------------
(* Inputs *)

\* Levels of the five push buttons (C, U, L, R, D on bits 0..4) and of the
\* switches that a read of the GPIO can return.
ButtonInputs == {0, 1, 2, 4, 8, 16, 12}
SwitchInputs == {0, 1}

\* Four 16-bit little-endian samples: 0, -32768, 32767, 256.
Samples == <<0, 0, 0, 128, 255, 127, 0, 1>>

\* A WAV byte stream: first byte b0, the declared sizes as four-byte fields,
\* a format chunk body of fmtLen bytes and the samples.
WavFile(b0, overall, fmtDecl, fmtLen, dataDecl) ==
    <<b0, 73, 70, 70>> \o overall \o <<87, 65, 86, 69>>
    \o <<102, 109, 116, 32>> \o fmtDecl
    \o [k \in 1..fmtLen |-> IF k = 1 THEN 1 ELSE IF k = 3 THEN 1 ELSE 0]
    \o <<100, 97, 116, 97>> \o dataDecl \o Samples

\* The transmissions of the serial host.
HostFiles ==
    { WavFile(82, Le32(44), Le32(16), 16, Le32(8)),       \* minimal file, 52 bytes
      WavFile(82, Le32(46), Le32(18), 18, Le32(8)),       \* 18-byte format chunk
      WavFile(0,  Le32(44), Le32(16), 16, Le32(8)),       \* first byte zero
      WavFile(82, Le32(44), Le32(16), 16, Le32(12)),      \* data chunk over-declared
      WavFile(82, Le32(44), Le32(8388608), 16, Le32(8)),  \* fmt_chunk_size 0x800000
      WavFile(82, Le32(48), Le32(16), 16, Le32(8)),       \* overall_size too large
      WavFile(82, Le32(0),  Le32(16), 16, Le32(8)) }      \* overall_size below 4

\* What a read outside the AudioBuffer can return: a data_chunk_size, a byte.
OobSizes == {U32(0), U32(4)}
OobBytes == {0, 255}

---------------------------------------------------------------------------
(* Initial state: main at its entry, after file = malloc and memset *)

NoData == [buttons |-> 0, switches |-> 0, button_pe |-> 0, button_ne |-> 0,
           switch_pe |-> 0, switch_ne |-> 0]

NoFrame == [off |-> 0, len |-> U32(0), cnt |-> 0]

NoSend == [buf |-> "none", len |-> 0]

\* ZeroedFile without the memset: the buffer holds what the heap held.
UnclearedFile == [k \in 0..(Window - 1) |-> 82]

\* memset(file, 0, max_file_size)
ZeroedFile == [k \in 0..(Window - 1) |-> 0]

\* temp before any sample is stored, and the locals after the return
NoTemp == [k \in 0..3 |-> 0]

\* play_wav has sent nothing since the latest recv_wav began.
NoPayload == <<-1>>

\* The button inputs have been low since reset.
NoPins == [seen |-> <<0>>, now |-> <<0>>]

\* The tone buffer after memset(buffer, 0, buffer_size * sizeof(u32))
ZeroBuffer == [k \in 0..(ToneBufferWords - 1) |-> 0]

StartState(p) ==
    /\ pc = p
    /\ stack = <<>>
    /\ mode = "INDETERMINATE"
    /\ last = [buttons |-> 0, switches |-> 0]
    /\ data = NoData
    /\ file = ZeroedFile
    /\ wire = <<>>
    /\ ur = NoFrame
    /\ nfiles = 0
    /\ tone_i = 0
    /\ status = "none"
    /\ dma_data = <<>>
    /\ dma_data_length = U32(0)
    /\ sendArg = NoSend
    /\ ret = "none"
    /\ dlog = <<>>
    /\ trace = <<>>
    /\ dmaBusy = FALSE
    /\ dmaResetDone = TRUE
    /\ oob = FALSE
    /\ iter = 0
    /\ sample = 0
    /\ time = 0
    /\ Y = 0
    /\ temp = NoTemp
    /\ buffer = <<>>
    /\ gpio = NoData
    /\ pins = NoPins
    /\ played = NoPayload

Init == StartState("main_init")

\* A call: continue at target, return to back.
Call(target, back) ==
    /\ pc' = target
    /\ stack' = <<back>> \o stack

Return ==
    /\ pc' = Head(stack)
    /\ stack' = Tail(stack)

---------------------------------------------------------------------------
(* main: the polling loop *)

\* A start-up that stops after reporting a failed init.
MainInitHalts ==
    /\ pc = "main_init"
    /\ \E st \in {"XST_SUCCESS", "XST_FAILURE"} :
          /\ trace' = IF st # "XST_SUCCESS" THEN <<"init_error", "sleep">>
                                               ELSE <<"started">>
          /\ pc' = IF st # "XST_SUCCESS" THEN "main_halt" ELSE "main_mode"
    /\ UNCHANGED <<played, pins, gpio, iter, sample, time, Y, temp, buffer, stack, mode, last,
                   data, file, wire, ur, nfiles, tone_i, status, dma_data,
                   dma_data_length, sendArg, ret, dlog, dmaBusy, dmaResetDone,
                   oob>>

\* status = init(&device); on a failure the error is printed and sleep(1)
\* follows, otherwise "Demo started" is printed.
MainInit ==
    /\ pc = "main_init"
    /\ \E st \in {"XST_SUCCESS", "XST_FAILURE"} :
          trace' = IF st # "XST_SUCCESS" THEN <<"init_error", "sleep">>
                                            ELSE <<"started">>
    /\ pc' = "main_mode"
    /\ UNCHANGED <<played, pins, gpio, iter, sample, time, Y, temp, buffer, stack, mode, last,
                   data, file, wire, ur, nfiles, tone_i, status, dma_data,
                   dma_data_length, sendArg, ret, dlog, dmaBusy, dmaResetDone,
                   oob>>

\* device.mode = DEMO_MODE_SW_TONE_GEN;
MainMode ==
    /\ pc = "main_mode"
    /\ mode' = "SW_TONE_GEN"
    /\ pc' = "main_sample"
    /\ UNCHANGED <<played, pins, gpio, iter, sample, time, Y, temp, buffer, stack,
                   last, data, file, wire, ur, nfiles, tone_i, status,
                   dma_data, dma_data_length, sendArg, ret, dlog, trace,
                   dmaBusy, dmaResetDone, oob>>

\* GpioIn_Data data = get_gpio_data(&device); the notes of the iteration
\* before (trace, the steps, arguments and result of its last dma_send, the
\* frame of its last uart_recv) are dropped.
MainSample ==
    /\ pc = "main_sample"
    /\ \E b \in ButtonInputs, s \in SwitchInputs :
          /\ data' = get_gpio_data(last, b, s)
          /\ last' = [buttons |-> b, switches |-> s]
    /\ iter' = IF iter < 2 THEN iter + 1 ELSE iter
    /\ pc' = "main_switch"
    /\ trace' = <<>>
    /\ dlog' = <<>> /\ ret' = "none" /\ sendArg' = NoSend /\ ur' = NoFrame
    /\ UNCHANGED <<played, pins, gpio, sample, time, Y, temp, buffer, stack, mode, file, wire,
                   nfiles, tone_i, status, dma_data, dma_data_length, dmaBusy,
                   dmaResetDone, oob>>

\* switch (data.button_pe)
MainSwitch ==
    /\ pc = "main_switch"
    /\ mode' = Transition(mode, data)
    /\ pc' = "main_dispatch"
    /\ UNCHANGED <<played, pins, gpio, iter, sample, time, Y, temp, buffer,
                   stack, last, data, file, wire, ur, nfiles, tone_i, status,
                   dma_data, dma_data_length, sendArg, ret, dlog, trace,
                   dmaBusy, dmaResetDone, oob>>

\* switch (device.mode): the action of the mode is called, or nothing is.
\* data is not used after this point of the iteration; the sample that
\* ended the tone loop of the iteration before is dropped with it.
MainDispatch ==
    /\ pc = "main_dispatch"
    /\ IF Dispatch(mode) = "main_sample"
       THEN pc' = "main_sample" /\ stack' = stack
       ELSE Call(Dispatch(mode), "main_sample")
    /\ data' = NoData
    /\ gpio' = NoData
    /\ UNCHANGED <<played, pins, iter, sample, time, Y, temp, buffer,
                   mode, last, file, wire, ur, nfiles, tone_i, status,
                   dma_data, dma_data_length, sendArg, ret, dlog, trace,
                   dmaBusy, dmaResetDone, oob>>

---------------------------------------------------------------------------
(* dma_send, dma_reset and the DMA engine *)

\* Xil_DCacheFlushRange; status = XAxiDma_SimpleTransfer(...); the driver
\* refuses a transfer while the channel is busy and may refuse it otherwise.
SendStart ==
    /\ pc = "dma_send"
    /\ \E ok \in BOOLEAN :
          /\ dmaBusy => ~ok
          /\ dlog' = <<"flush", IF ok THEN "init_ok" ELSE "init_fail">>
          /\ dmaBusy' = (dmaBusy \/ ok)
    /\ pc' = "send_wait"
    /\ UNCHANGED <<played, pins, gpio, iter, sample, time, Y, temp, buffer,
                   stack, mode, last, data, file, wire, ur, nfiles, tone_i,
                   status, dma_data, dma_data_length, sendArg, ret, trace,
                   dmaResetDone, oob>>

\* SendWait that does not poll XAxiDma_Busy.
SendWaitNoPoll ==
    /\ pc = "send_wait"
    /\ pc' = "send_check"
    /\ UNCHANGED <<played, pins, gpio, iter, sample, time, Y, temp, buffer,
                   stack, mode, last, data, file, wire, ur, nfiles, tone_i,
                   status, dma_data, dma_data_length, sendArg, ret, dlog,
                   trace, dmaBusy, dmaResetDone, oob>>

\* while (XAxiDma_Busy(...)); left once the channel is not busy
SendWait ==
    /\ pc = "send_wait"
    /\ ~dmaBusy
    /\ pc' = "send_check"
    /\ UNCHANGED <<played, pins, gpio, iter, sample, time, Y, temp, buffer,
                   stack, mode, last, data, file, wire, ur, nfiles, tone_i,
                   status, dma_data, dma_data_length, sendArg, ret, dlog,
                   trace, dmaBusy, dmaResetDone, oob>>

\* The error test on the status register, the second flush and the return.
SendCheck ==
    /\ pc = "send_check"
    /\ \E err \in BOOLEAN :
          IF err
          THEN /\ dlog' = dlog \o <<"err">>
               /\ ret' = "XST_FAILURE"
          ELSE /\ dlog' = dlog \o <<"noerr", "flush">>
               /\ ret' = "XST_SUCCESS"
    /\ trace' = trace \o <<"ret_send">>
    /\ Return
    /\ UNCHANGED <<played, pins, gpio, iter, sample, time, Y, temp, buffer,
                   mode, last, data, file, wire, ur, nfiles, tone_i, status,
                   dma_data, dma_data_length, sendArg, dmaBusy, dmaResetDone,
                   oob>>

\* The DMA engine completes the transfer in flight.
HwTransferDone ==
    /\ dmaBusy
    /\ dmaBusy' = FALSE
    /\ UNCHANGED <<played, pins, gpio, iter, sample, time, Y, temp, buffer,
                   pc, stack, mode, last, data, file, wire, ur, nfiles, tone_i,
                   status, dma_data, dma_data_length, sendArg, ret, dlog,
                   trace, dmaResetDone, oob>>

\* XAxiDma_Reset
ResetStart ==
    /\ pc = "dma_reset"
    /\ dmaResetDone' = FALSE
    /\ trace' = trace \o <<"reset">>
    /\ pc' = "reset_wait"
    /\ UNCHANGED <<played, pins, gpio, iter, sample, time, Y, temp, buffer,
                   stack, mode, last, data, file, wire, ur, nfiles, tone_i,
                   status, dma_data, dma_data_length, sendArg, ret, dlog,
                   dmaBusy, oob>>

\* A return from dma_reset that does not wait for XAxiDma_ResetIsDone.
ResetWaitGivesUp ==
    /\ pc = "reset_wait"
    /\ Return
    /\ UNCHANGED <<played, pins, gpio, iter, sample, time, Y, temp, buffer,
                   mode, last, data, file, wire, ur, nfiles, tone_i, status,
                   dma_data, dma_data_length, sendArg, ret, dlog, trace,
                   dmaBusy, dmaResetDone, oob>>

\* while (!XAxiDma_ResetIsDone(...)); and the return
ResetWait ==
    /\ pc = "reset_wait"
    /\ dmaResetDone
    /\ Return
    /\ UNCHANGED <<played, pins, gpio, iter, sample, time, Y, temp, buffer,
                   mode, last, data, file, wire, ur, nfiles, tone_i, status,
                   dma_data, dma_data_length, sendArg, ret, dlog, trace,
                   dmaBusy, dmaResetDone, oob>>

\* The DMA engine completes its reset.
HwResetDone ==
    /\ ~dmaResetDone
    /\ dmaResetDone' = TRUE
    /\ dmaBusy' = FALSE
    /\ UNCHANGED <<played, pins, gpio, iter, sample, time, Y, temp, buffer,
                   pc, stack, mode, last, data, file, wire, ur, nfiles, tone_i,
                   status, dma_data, dma_data_length, sendArg, ret, dlog,
                   trace, oob>>

---------------------------------------------------------------------------
(* dma_sw_tone_gen *)

\* malloc, memset and the initial values of the locals
ToneGen ==
    /\ pc = "tone_gen"
    /\ buffer' = ZeroBuffer
    /\ tone_i' = 0
    /\ time' = 0
    /\ Y' = 0
    /\ sample' = 0
    /\ temp' = NoTemp
    /\ status' = "none"
    /\ trace' = trace \o <<"gen">>
    /\ pc' = "tone_loop"
    /\ UNCHANGED <<played, pins, gpio, iter, stack, mode, last, data, file, wire, ur,
                   nfiles, dma_data, dma_data_length, sendArg, ret, dlog,
                   dmaBusy, dmaResetDone, oob>>

\* sample < 256 && time < 48 holds: time_step = time/96000; Y = ...
ToneCompute ==
    /\ pc = "tone_loop"
    /\ sample < ToneSampleLimit /\ time < TonePeriod
    /\ Y' = ToneY(time)
    /\ pc' = "tone_store"
    /\ UNCHANGED <<played, pins, gpio, iter, sample, time, temp, buffer, stack, mode,
                   last, data, file, wire, ur, nfiles, tone_i, status,
                   dma_data, dma_data_length, sendArg, ret, dlog, trace,
                   dmaBusy, dmaResetDone, oob>>

\* ToneStore that keeps its samples in the AudioBuffer as well.
ToneStoreInFile ==
    /\ pc = "tone_store"
    /\ temp' = [temp EXCEPT ![sample % 4] = Y % 256]
    /\ file' = [file EXCEPT ![sample % Window] = Y % 256]
    /\ IF sample % 4 = 3
       THEN /\ buffer' = WriteWords(buffer, tone_i, temp')
            /\ tone_i' = tone_i + 2
       ELSE UNCHANGED <<buffer, tone_i>>
    /\ time' = time + 1
    /\ sample' = (sample + 1) % 65536
    /\ pc' = "tone_loop"
    /\ UNCHANGED <<played, pins, gpio, iter, Y, stack, mode, last, data, wire,
                   ur, nfiles, status, dma_data, dma_data_length, sendArg,
                   ret, dlog, trace, dmaBusy, dmaResetDone, oob>>

\* The store of a sample without the time++ that follows it.
ToneStoreNoTime ==
    /\ pc = "tone_store"
    /\ temp' = [temp EXCEPT ![sample % 4] = Y % 256]
    /\ IF sample % 4 = 3
       THEN /\ buffer' = WriteWords(buffer, tone_i, temp')
            /\ tone_i' = tone_i + 2
       ELSE UNCHANGED <<buffer, tone_i>>
    /\ sample' = (sample + 1) % 65536
    /\ pc' = "tone_loop"
    /\ UNCHANGED <<played, pins, gpio, iter, Y, time, stack, mode, last, data, file, wire,
                   ur, nfiles, status, dma_data, dma_data_length, sendArg,
                   ret, dlog, trace, dmaBusy, dmaResetDone, oob>>

\* temp[sample % 4] = Y; after the fourth sample of a group the two words
\* are written and i += 2; then time++ and sample++.
ToneStore ==
    /\ pc = "tone_store"
    /\ temp' = [temp EXCEPT ![sample % 4] = Y % 256]
    /\ IF sample % 4 = 3
       THEN /\ buffer' = WriteWords(buffer, tone_i, temp')
            /\ tone_i' = tone_i + 2
       ELSE UNCHANGED <<buffer, tone_i>>
    /\ time' = time + 1
    /\ sample' = (sample + 1) % 65536
    /\ pc' = "tone_loop"
    /\ UNCHANGED <<played, pins, gpio, iter, Y, stack, mode, last, data, file, wire,
                   ur, nfiles, status, dma_data, dma_data_length, sendArg,
                   ret, dlog, trace, dmaBusy, dmaResetDone, oob>>

\* sample < 256 && time < 48 fails: the for loop ends.
ToneLoopEnd ==
    /\ pc = "tone_loop"
    /\ ~(sample < ToneSampleLimit /\ time < TonePeriod)
    /\ pc' = "tone_send"
    /\ UNCHANGED <<played, pins, gpio, iter, sample, time, Y, temp, buffer, stack,
                   mode, last, data, file, wire, ur, nfiles, tone_i, status,
                   dma_data, dma_data_length, sendArg, ret, dlog, trace,
                   dmaBusy, dmaResetDone, oob>>

\* dma_send(p_demo_inst, buffer, i*4) of the while loop
ToneSend ==
    /\ pc = "tone_send"
    /\ sendArg' = [buf |-> "tone", len |-> tone_i * 4]
    /\ trace' = trace \o <<"send_tone">>
    /\ Call("dma_send", "tone_sample")
    /\ UNCHANGED <<played, pins, gpio, iter, sample, time, Y, temp, buffer,
                   mode, last, data, file, wire, ur, nfiles, tone_i, status,
                   dma_data, dma_data_length, ret, dlog, dmaBusy, dmaResetDone,
                   oob>>

\* The sample of the tone loop without the update of the previous levels.
ToneSampleKeepsLast ==
    /\ pc = "tone_sample"
    /\ status' = ret
    /\ \E b \in ButtonInputs, s \in SwitchInputs :
          LET g == get_gpio_data(last, b, s) IN
          /\ g.button_pe = 0 => Count(trace, "send_tone") < MaxToneSends
          /\ gpio' = IF ToneBreak(g) THEN g ELSE NoData
          /\ last' = last
          /\ trace' = trace \o <<IF g.button_pe # 0 THEN "sample_edge"
                                                   ELSE "sample_noedge">>
          /\ pc' = IF ToneBreak(g) THEN "tone_exit" ELSE "tone_send"
    /\ UNCHANGED <<played, pins, iter, sample, time, Y, temp, buffer,
                   stack, mode, data, file, wire, ur, nfiles, tone_i, dma_data,
                   dma_data_length, sendArg, ret, dlog, dmaBusy, dmaResetDone,
                   oob>>

\* status = <returned>; gpio = get_gpio_data(); if (gpio.button_pe != 0) break;
\* The sample is kept only when it ends the loop.
ToneSample ==
    /\ pc = "tone_sample"
    /\ status' = ret
    /\ \E b \in ButtonInputs, s \in SwitchInputs :
          LET g == get_gpio_data(last, b, s) IN
          /\ g.button_pe = 0 => Count(trace, "send_tone") < MaxToneSends
          /\ gpio' = IF ToneBreak(g) THEN g ELSE NoData
          /\ last' = [buttons |-> b, switches |-> s]
          /\ trace' = trace \o <<IF g.button_pe # 0 THEN "sample_edge"
                                                   ELSE "sample_noedge">>
          /\ pc' = IF ToneBreak(g) THEN "tone_exit" ELSE "tone_send"
    /\ UNCHANGED <<played, pins, iter, sample, time, Y, temp, buffer,
                   stack, mode, data, file, wire, ur, nfiles, tone_i, dma_data,
                   dma_data_length, sendArg, ret, dlog, dmaBusy, dmaResetDone,
                   oob>>

\* mode = DEMO_MODE_PAUSED; memset(buffer, 0, ...); dma_send(buffer, buffer_size*4)
ToneExit ==
    /\ pc = "tone_exit"
    /\ mode' = "PAUSED"
    /\ sendArg' = [buf |-> "silence", len |-> ToneBufferWords * 4]
    /\ trace' = trace \o <<"paused", "memset", "send_silence">>
    /\ buffer' = ZeroBuffer
    /\ Call("dma_send", "tone_free")
    /\ UNCHANGED <<played, pins, gpio, iter, sample, time, Y, temp,
                   last, data, file, wire, ur, nfiles, tone_i, status, dma_data,
                   dma_data_length, ret, dlog, dmaBusy, dmaResetDone, oob>>

\* status = <returned>; free(buffer); dma_reset(p_demo_inst);
ToneFree ==
    /\ pc = "tone_free"
    /\ status' = ret
    /\ trace' = trace \o <<"free_tone">>
    /\ buffer' = <<>>
    /\ Call("dma_reset", "tone_return")
    /\ UNCHANGED <<played, pins, gpio, iter, sample, time, Y, temp, mode, last, data, file, wire,
                   ur, nfiles, tone_i, dma_data, dma_data_length, sendArg,
                   ret, dlog, dmaBusy, dmaResetDone, oob>>

\* The return of dma_sw_tone_gen: its locals are gone.
ToneReturn ==
    /\ pc = "tone_return"
    /\ sample' = 0 /\ time' = 0 /\ Y' = 0 /\ temp' = NoTemp
    /\ tone_i' = 0 /\ status' = "none"
    /\ Return
    /\ UNCHANGED <<played, pins, gpio, iter, buffer, mode, last, data, file, wire, ur, nfiles,
                   dma_data, dma_data_length, sendArg, ret, dlog, trace,
                   dmaBusy, dmaResetDone, oob>>

---------------------------------------------------------------------------
(* play_wav *)

\* The 16-bit sample wav_data[k] when its two bytes lie inside the buffer.
WavSample(f, k) ==
    LET o == U32Add(WavDataOffset(f), U32(2 * k))
    IN  Byte(f, o) + (256 * Byte(f, U32Add(o, U32(1))))

WavSampleInBuffer(f, k) == InBuffer(U32Add(WavDataOffset(f), U32(2 * k)), 2)

\* The pointer set-up and the sentinel test: if (*file == 0) { mode = PAUSED; return; }
PlayEnter ==
    /\ pc = "play_wav"
    /\ IF PlayAborts(file)
       THEN /\ mode' = "PAUSED"
            /\ trace' = trace \o <<"play", "abort">>
            /\ Return
       ELSE /\ mode' = mode
            /\ trace' = trace \o <<"play">>
            /\ pc' = "play_len"
            /\ stack' = stack
    /\ UNCHANGED <<played, pins, gpio, iter, sample, time, Y, temp, buffer,
                   last, data, file, wire, ur, nfiles, tone_i, status, dma_data,
                   dma_data_length, sendArg, ret, dlog, dmaBusy, dmaResetDone,
                   oob>>

\* dma_data_length = buf2u32(p_data->data_chunk_size) * sizeof(u8) / sizeof(u16);
\* a data chunk header outside the buffer reads whatever lies there.
PlayLen ==
    /\ pc = "play_len"
    /\ IF InBuffer(DataChunkOffset(file), 8)
       THEN /\ dma_data_length' =
                   U32Half(Field32(file, U32Add(DataChunkOffset(file), U32(4))))
            /\ oob' = oob
       ELSE /\ \E v \in OobSizes : dma_data_length' = U32Half(v)
            /\ oob' = TRUE
    /\ pc' = "play_fill"
    /\ UNCHANGED <<played, pins, gpio, iter, sample, time, Y, temp, buffer,
                   stack, mode, last, data, file, wire, ur, nfiles, tone_i,
                   status, dma_data, sendArg, ret, dlog, trace, dmaBusy,
                   dmaResetDone>>

\* dma_data = malloc(dma_data_length); the downscale loop;
\* dma_send(p_demo_inst, dma_data, dma_data_length).  Every modelled length is
\* below 65536.  A sample outside the buffer reads whatever lies there.
PlayFill ==
    /\ pc = "play_fill"
    /\ LET n == dma_data_length[2]
           inside == \A k \in 0..(n - 1) : WavSampleInBuffer(file, k)
       IN  /\ \E g \in OobBytes :
                 /\ ~inside \/ g = 0
                 /\ dma_data' = [k \in 1..n |->
                        IF WavSampleInBuffer(file, k - 1)
                        THEN Downscale(WavSample(file, k - 1))
                        ELSE Downscale(g + (256 * g))]
           /\ oob' = (oob \/ ~inside)
           /\ sendArg' = [buf |-> "play", len |-> n]
           /\ played' = dma_data'
    /\ trace' = trace \o <<"send_play">>
    /\ Call("dma_send", "play_after")
    /\ UNCHANGED <<pins, gpio, iter, sample, time, Y, temp, buffer,
                   mode, last, data, file, wire, ur, nfiles, tone_i, status,
                   dma_data_length, ret, dlog, dmaBusy, dmaResetDone>>

\* sleep(2); free(dma_data); dma_reset(p_demo_inst);
PlayAfter ==
    /\ pc = "play_after"
    /\ dma_data' = <<>>
    /\ trace' = trace \o <<"free_play">>
    /\ Call("dma_reset", "play_done")
    /\ UNCHANGED <<played, pins, gpio, iter, sample, time, Y, temp, buffer,
                   mode, last, data, file, wire, ur, nfiles, tone_i, status,
                   dma_data_length, sendArg, ret, dlog, dmaBusy, dmaResetDone,
                   oob>>

\* The return of play_wav with the mode left as it is.
PlayDoneKeepsMode ==
    /\ pc = "play_done"
    /\ mode' = mode
    /\ trace' = trace \o <<"paused">>
    /\ dma_data_length' = U32(0)
    /\ Return
    /\ UNCHANGED <<played, pins, gpio, iter, sample, time, Y, temp, buffer,
                   last, data, file, wire, ur, nfiles, tone_i, status, dma_data,
                   sendArg, ret, dlog, dmaBusy, dmaResetDone, oob>>

\* p_demo_inst->mode = DEMO_MODE_PAUSED; return (the locals are gone)
PlayDone ==
    /\ pc = "play_done"
    /\ mode' = "PAUSED"
    /\ trace' = trace \o <<"paused">>
    /\ dma_data_length' = U32(0)
    /\ Return
    /\ UNCHANGED <<played, pins, gpio, iter, sample, time, Y, temp, buffer,
                   last, data, file, wire, ur, nfiles, tone_i, status, dma_data,
                   sendArg, ret, dlog, dmaBusy, dmaResetDone, oob>>

---------------------------------------------------------------------------
(* uart_recv and the serial host *)

\* received_count += XUartLite_Recv(..., buffer + received_count, 1) when a
\* byte is there (a call that returns 0 changes nothing)
UartRecvByte ==
    /\ pc = "uart_recv"
    /\ U32Lt(U32(ur.cnt), ur.len)
    /\ wire # <<>>
    /\ file' = [file EXCEPT ![ur.off + ur.cnt] = Head(wire)]
    /\ wire' = Tail(wire)
    /\ ur' = [ur EXCEPT !.cnt = ur.cnt + 1]
    /\ UNCHANGED <<played, pins, gpio, iter, sample, time, Y, temp, buffer,
                   pc, stack, mode, last, data, nfiles, tone_i, status,
                   dma_data, dma_data_length, sendArg, ret, dlog, trace,
                   dmaBusy, dmaResetDone, oob>>

\* while (received_count < length) fails: return received_count
UartRecvDone ==
    /\ pc = "uart_recv"
    /\ ~U32Lt(U32(ur.cnt), ur.len)
    /\ trace' = trace \o <<"recv_done">>
    /\ Return
    /\ UNCHANGED <<played, pins, gpio, iter, sample, time, Y, temp, buffer,
                   mode, last, data, file, wire, ur, nfiles, tone_i, status,
                   dma_data, dma_data_length, sendArg, ret, dlog, dmaBusy,
                   dmaResetDone, oob>>

\* The host transmits a file while the program waits for a header.
HostSend ==
    /\ pc = "uart_recv"
    /\ ur.off = 0 /\ ur.cnt = 0
    /\ wire = <<>>
    /\ nfiles < MaxFiles
    /\ \E f \in HostFiles : wire' = f
    /\ nfiles' = nfiles + 1
    /\ UNCHANGED <<played, pins, gpio, iter, sample, time, Y, temp, buffer,
                   pc, stack, mode, last, data, file, ur, tone_i, status,
                   dma_data, dma_data_length, sendArg, ret, dlog, trace,
                   dmaBusy, dmaResetDone, oob>>

---------------------------------------------------------------------------
(* recv_wav *)

\* The NULL test (file is not NULL); XUartLite_ResetFifos;
\* uart_recv(p_demo_inst, file, sizeof(Wav_HeaderRaw))
RecvEnter ==
    /\ pc = "recv_wav"
    /\ wire' = <<>>
    /\ played' = NoPayload
    /\ ur' = [off |-> 0, len |-> U32(HeaderSize), cnt |-> 0]
    /\ trace' = trace \o <<"fifo_reset", "recv_header">>
    /\ Call("uart_recv", "recv_header")
    /\ UNCHANGED <<pins, gpio, iter, sample, time, Y, temp, buffer,
                   mode, last, data, file, nfiles, tone_i, status, dma_data,
                   dma_data_length, sendArg, ret, dlog, dmaBusy, dmaResetDone,
                   oob>>

\* var = buf2u32(p_header->overall_size) - 4;
\* uart_recv(p_demo_inst, file + sizeof(Wav_HeaderRaw), var)
RecvHeader ==
    /\ pc = "recv_header"
    /\ ur' = [off |-> HeaderSize, len |-> U32Sub(overall_size(file), U32(4)),
              cnt |-> 0]
    /\ trace' = trace \o <<"recv_rest">>
    /\ Call("uart_recv", "recv_parse")
    /\ UNCHANGED <<played, pins, gpio, iter, sample, time, Y, temp, buffer,
                   mode, last, data, file, wire, nfiles, tone_i, status,
                   dma_data, dma_data_length, sendArg, ret, dlog, dmaBusy,
                   dmaResetDone, oob>>

\* RecvParse that returns to the polling loop without calling play_wav.
RecvParseNoPlay ==
    /\ pc = "recv_parse"
    /\ oob' = (oob \/ ~InBuffer(DataChunkOffset(file), 8))
    /\ pc' = "recv_exit"
    /\ UNCHANGED <<played, pins, gpio, iter, sample, time, Y, temp, buffer,
                   stack, mode, last, data, file, wire, ur, nfiles, tone_i,
                   status, dma_data, dma_data_length, sendArg, ret, dlog,
                   trace, dmaBusy, dmaResetDone>>

\* The pointer set-up, the printing of the header, format and data chunk
\* fields (which reads the data chunk header) and play_wav(p_demo_inst, file)
RecvParse ==
    /\ pc = "recv_parse"
    /\ oob' = (oob \/ ~InBuffer(DataChunkOffset(file), 8))
    /\ Call("play_wav", "recv_exit")
    /\ UNCHANGED <<played, pins, gpio, iter, sample, time, Y, temp, buffer,
                   mode, last, data, file, wire, ur, nfiles, tone_i, status,
                   dma_data, dma_data_length, sendArg, ret, dlog, trace,
                   dmaBusy, dmaResetDone>>

\* xil_printf("Exiting receive mode"); return
RecvExit ==
    /\ pc = "recv_exit"
    /\ trace' = trace \o <<"recv_exit">>
    /\ Return
    /\ UNCHANGED <<played, pins, gpio, iter, sample, time, Y, temp, buffer,
                   mode, last, data, file, wire, ur, nfiles, tone_i, status,
                   dma_data, dma_data_length, sendArg, ret, dlog, dmaBusy,
                   dmaResetDone, oob>>

---------------------------------------------------------------------------
(* The specification *)

Next ==
    \/ MainInit
    \/ MainMode
    \/ MainSample
    \/ MainSwitch
    \/ MainDispatch
    \/ SendStart
    \/ SendWait
    \/ SendCheck
    \/ HwTransferDone
    \/ ResetStart
    \/ ResetWait
    \/ HwResetDone
    \/ ToneGen
    \/ ToneCompute
    \/ ToneStore
    \/ ToneLoopEnd
    \/ ToneSend
    \/ ToneSample
    \/ ToneExit
    \/ ToneFree
    \/ ToneReturn
    \/ PlayEnter
    \/ PlayLen
    \/ PlayFill
    \/ PlayAfter
    \/ PlayDone
    \/ UartRecvByte
    \/ UartRecvDone
    \/ HostSend
    \/ RecvEnter
    \/ RecvHeader
    \/ RecvParse
    \/ RecvExit

Spec == Init /\ [][Next]_vars

\* The steps of the processor: every action but those of the DMA engine and
\* of the serial host.
Cpu ==
    \/ MainInit \/ MainMode \/ MainSample \/ MainSwitch \/ MainDispatch
    \/ SendStart \/ SendWait \/ SendCheck \/ ResetStart \/ ResetWait
    \/ ToneGen \/ ToneCompute \/ ToneStore \/ ToneLoopEnd \/ ToneSend
    \/ ToneSample \/ ToneExit \/ ToneFree \/ ToneReturn
    \/ PlayEnter \/ PlayLen \/ PlayFill \/ PlayAfter \/ PlayDone
    \/ UartRecvByte \/ UartRecvDone
    \/ RecvEnter \/ RecvHeader \/ RecvParse \/ RecvExit

\* The program keeps running, the DMA engine completes every transfer and
\* every reset, and the host sends what it has to send.
FairSpec ==
    /\ Init /\ [][Next]_vars
    /\ WF_vars(Cpu)
    /\ WF_vars(HwTransferDone)
    /\ WF_vars(HwResetDone)
    /\ WF_vars(HostSend)

---------------------------------------------------------------------------
(* dma_receive, and dma_forward, its only caller (main never calls it) *)

\* Xil_DCacheFlushRange; status = XAxiDma_SimpleTransfer(..DEVICE_TO_DMA);
\* if (status != XST_SUCCESS) return XST_FAILURE;
ReceiveStart ==
    /\ pc = "dma_receive"
    /\ \E ok \in BOOLEAN :
          /\ dmaBusy => ~ok
          /\ dlog' = <<"flush", IF ok THEN "init_ok" ELSE "init_fail">>
          /\ dmaBusy' = (dmaBusy \/ ok)
          /\ IF ok
             THEN /\ pc' = "receive_wait"
                  /\ UNCHANGED <<stack, ret, trace>>
             ELSE /\ ret' = "XST_FAILURE"
                  /\ trace' = trace \o <<"ret_receive">>
                  /\ Return
    /\ UNCHANGED <<played, pins, gpio, iter, sample, time, Y, temp, buffer, mode,
                   last, data, file, wire, ur, nfiles, tone_i, status,
                   dma_data, dma_data_length, sendArg, dmaResetDone, oob>>

\* do { busy = XAxiDma_Busy(...); } while (busy);
ReceiveWait ==
    /\ pc = "receive_wait"
    /\ ~dmaBusy
    /\ pc' = "receive_check"
    /\ UNCHANGED <<played, pins, gpio, iter, sample, time, Y, temp, buffer, stack,
                   mode, last, data, file, wire, ur, nfiles, tone_i, status,
                   dma_data, dma_data_length, sendArg, ret, dlog, trace,
                   dmaBusy, dmaResetDone, oob>>

\* The error test on the status register, the second flush and the return.
ReceiveCheck ==
    /\ pc = "receive_check"
    /\ \E err \in BOOLEAN :
          IF err
          THEN /\ dlog' = dlog \o <<"err">>
               /\ ret' = "XST_FAILURE"
          ELSE /\ dlog' = dlog \o <<"noerr", "flush">>
               /\ ret' = "XST_SUCCESS"
    /\ trace' = trace \o <<"ret_receive">>
    /\ Return
    /\ UNCHANGED <<played, pins, gpio, iter, sample, time, Y, temp, buffer, mode,
                   last, data, file, wire, ur, nfiles, tone_i, status,
                   dma_data, dma_data_length, sendArg, dmaBusy, dmaResetDone,
                   oob>>

\* for (i < BUFFER_SIZE_WORDS) dma_receive(.., 4): the next call; i is the
\* number of calls made.
ForwardReceive ==
    /\ pc = "dma_forward"
    /\ Count(trace, "dma_receive") < ForwardWords
    /\ trace' = trace \o <<"dma_receive">>
    /\ Call("dma_receive", "forward_next")
    /\ UNCHANGED <<played, pins, gpio, iter, sample, time, Y, temp, buffer, mode,
                   last, data, file, wire, ur, nfiles, tone_i, status,
                   dma_data, dma_data_length, sendArg, ret, dlog, dmaBusy,
                   dmaResetDone, oob>>

\* The call has returned (its value is dropped); its steps and its result
\* are noted.
ForwardNext ==
    /\ pc = "forward_next"
    /\ trace' = trace \o dlog \o <<ret, "end">>
    /\ pc' = "dma_forward"
    /\ UNCHANGED <<played, pins, gpio, iter, sample, time, Y, temp, buffer, stack,
                   mode, last, data, file, wire, ur, nfiles, tone_i, status,
                   dma_data, dma_data_length, sendArg, ret, dlog, dmaBusy,
                   dmaResetDone, oob>>

\* dma_send(p_demo_inst, (UINTPTR)buffer, BUFFER_SIZE_BYTES) after the loop
ForwardSend ==
    /\ pc = "dma_forward"
    /\ Count(trace, "dma_receive") = ForwardWords
    /\ sendArg' = [buf |-> "forward", len |-> 1024]
    /\ trace' = trace \o <<"dma_send">>
    /\ Call("dma_send", "forward_free")
    /\ UNCHANGED <<played, pins, gpio, iter, sample, time, Y, temp, buffer, mode,
                   last, data, file, wire, ur, nfiles, tone_i, status,
                   dma_data, dma_data_length, ret, dlog, dmaBusy,
                   dmaResetDone, oob>>

\* The send has returned; free(buffer) and the return of dma_forward.
ForwardFree ==
    /\ pc = "forward_free"
    /\ trace' = trace \o dlog \o <<ret, "end">>
    /\ pc' = "forward_done"
    /\ UNCHANGED <<played, pins, gpio, iter, sample, time, Y, temp, buffer, stack,
                   mode, last, data, file, wire, ur, nfiles, tone_i, status,
                   dma_data, dma_data_length, sendArg, ret, dlog, dmaBusy,
                   dmaResetDone, oob>>

DmaNext ==
    \/ ForwardReceive
    \/ ForwardNext
    \/ ForwardSend
    \/ ForwardFree
    \/ ReceiveStart
    \/ ReceiveWait
    \/ ReceiveCheck
    \/ SendStart
    \/ SendWait
    \/ SendCheck
    \/ HwTransferDone

DmaSpec == StartState("dma_forward") /\ [][DmaNext]_vars

---------------------------------------------------------------------------
(* get_gpio_data called again and again, on every level of the five buttons *)

\* Levels of the 16 switches a call can read.
GpioSwitchLevels == {0, 5, 65535}

\* One call of get_gpio_data.
GpioCall ==
    /\ pc = "get_gpio_data"
    /\ \E b \in 0..31, s \in GpioSwitchLevels :
          /\ data' = get_gpio_data(last, b, s)
          /\ last' = [buttons |-> b, switches |-> s]
    /\ UNCHANGED <<played, pins, gpio, pc, stack, mode, file, wire, ur, nfiles, tone_i, status,
                   dma_data, dma_data_length, sendArg, ret, dlog, trace,
                   dmaBusy, dmaResetDone, oob, iter, sample,
                   time, Y, temp, buffer>>

GpioSpec == StartState("get_gpio_data") /\ [][GpioCall]_vars

---------------------------------------------------------------------------
(* The store of the fourth sample of a group, on every sample value *)

\* dma_sw_tone_gen about to store the fourth sample of its first or of its
\* last group: the samples are a, b, a + 2 and b + 2 (modulo 256) for any
\* a and b, so that each of the two words takes every pair of values.
PackInit ==
    /\ pc = "tone_store"
    /\ stack = <<"main_sample">>
    /\ mode = "SW_TONE_GEN"
    /\ last = [buttons |-> 0, switches |-> 0]
    /\ data = NoData
    /\ file = ZeroedFile
    /\ wire = <<>>
    /\ ur = NoFrame
    /\ nfiles = 0
    /\ status = "none"
    /\ dma_data = <<>>
    /\ dma_data_length = U32(0)
    /\ sendArg = NoSend
    /\ ret = "none"
    /\ dlog = <<>>
    /\ trace = <<"gen">>
    /\ dmaBusy = FALSE
    /\ dmaResetDone = TRUE
    /\ oob = FALSE
    /\ iter = 1
    /\ buffer = ZeroBuffer
    /\ gpio = NoData
    /\ pins = NoPins
    /\ played = NoPayload
    /\ \E g \in {0, 11} :
          /\ sample = (4 * g) + 3
          /\ time = (4 * g) + 3
          /\ tone_i = 2 * g
    /\ \E a \in 0..255, b \in 0..255 :
          /\ temp = [k \in 0..3 |-> IF k = 0 THEN a
                                    ELSE IF k = 1 THEN b
                                    ELSE IF k = 2 THEN (a + 2) % 256 ELSE 0]
          /\ Y = (b + 2) % 256

PackSpec == PackInit /\ [][ToneStore]_vars

---------------------------------------------------------------------------
(* The downscale loop of play_wav on every 16-bit sample *)

\* The AudioBuffer after a file with a two-byte data chunk was received.
OneSampleFile ==
    LET w == WavFile(82, Le32(44), Le32(16), 16, Le32(2))
    IN  [k \in 0..(Window - 1) |-> IF k < Len(w) THEN w[k + 1] ELSE 0]

\* play_wav about to fill dma_data from a received file whose data chunk
\* holds one sample, its two bytes (low, high) being any of the 65536 pairs.
DownscaleInit ==
    /\ pc = "play_fill"
    /\ stack = <<"main_sample">>
    /\ mode = "PLAY_WAV_FILE"
    /\ last = [buttons |-> 8, switches |-> 0]
    /\ data = NoData
    /\ \E lo \in 0..255, hi \in 0..255 :
          file = [OneSampleFile EXCEPT ![44] = lo, ![45] = hi]
    /\ wire = <<>>
    /\ ur = [off |-> HeaderSize, len |-> U32(40), cnt |-> 40]
    /\ nfiles = 1
    /\ tone_i = 0
    /\ status = "none"
    /\ dma_data = <<>>
    /\ dma_data_length = U32(1)
    /\ sendArg = NoSend
    /\ ret = "none"
    /\ dlog = <<>>
    /\ trace = <<"play">>
    /\ dmaBusy = FALSE
    /\ dmaResetDone = TRUE
    /\ oob = FALSE
    /\ iter = 2
    /\ sample = 0
    /\ time = 0
    /\ Y = 0
    /\ temp = NoTemp
    /\ buffer = <<>>
    /\ gpio = NoData
    /\ pins = NoPins
    /\ played = NoPayload

DownscaleSpec == DownscaleInit /\ [][PlayFill]_vars

TypeOK ==
    /\ mode \in DemoModes \cup {"INDETERMINATE"}
    /\ iter \in 0..2
    /\ sample \in 0..65535
    /\ Y \in 0..255
    /\ \A k \in 0..3 : temp[k] \in 0..255
    /\ \A k \in DOMAIN buffer : buffer[k] \in 0..65535
    /\ stack \in Seq(STRING)
    /\ dmaBusy \in BOOLEAN
    /\ dmaResetDone \in BOOLEAN
    /\ oob \in BOOLEAN
    /\ ret \in {"none", "XST_SUCCESS", "XST_FAILURE"}
    /\ status \in {"none", "XST_SUCCESS", "XST_FAILURE"}
    /\ \A k \in 0..(Window - 1) : file[k] \in 0..255
    /\ nfiles \in 0..MaxFiles
    /\ gpio.button_pe \in 0..255
    /\ pins.seen # <<>> /\ pins.now # <<>>
    /\ played = NoPayload \/ \A k \in DOMAIN played : played[k] \in 0..255

---------------------------------------------------------------------------
(* Properties *)

IsPrefix(s, t) == Len(s) <= Len(t) /\ SubSeq(t, 1, Len(s)) = s

\* The steps of the current iteration after play_wav was entered, the
\* closing step of recv_wav left out.
PlaySteps ==
    LET p == CHOOSE k \in 1..Len(trace) : trace[k] = "play"
        e == IF trace[Len(trace)] = "recv_exit" THEN Len(trace) - 1
                                                ELSE Len(trace)
    IN  SubSeq(trace, p + 1, e)

\* C1: the transition step of main sets the mode from data.button_pe alone
\* (0x01 Idle, 0x04 ReceiveWav, 0x08 PlayWav, 0x10 SwTone, anything else
\* keeps the mode, whatever the levels, the negative edges and the switches
\* are), and the dispatch step that follows it starts the action of exactly
\* that mode without changing it.
C1_TransitionByButtonEdge ==
    [][ /\ pc = "main_switch" =>
            /\ pc' = "main_dispatch"
            /\ mode' = IF data.button_pe = 1 THEN "PAUSED"
                       ELSE IF data.button_pe = 4 THEN "RECV_WAV_FILE"
                       ELSE IF data.button_pe = 8 THEN "PLAY_WAV_FILE"
                       ELSE IF data.button_pe = 16 THEN "SW_TONE_GEN"
                       ELSE mode
        /\ pc = "main_dispatch" =>
            /\ mode' = mode
            /\ mode = "PAUSED" => pc' = "main_sample"
            /\ mode = "RECV_WAV_FILE" => pc' = "recv_wav"
            /\ mode = "PLAY_WAV_FILE" => pc' = "play_wav"
            /\ mode = "SW_TONE_GEN" => pc' = "tone_gen" ]_vars

\* A receive selected by the edge of button L while button R is held and a
\* switch has just risen.
C1_Witness ==
    /\ pc = "main_dispatch"
    /\ mode = "RECV_WAV_FILE"
    /\ data.button_pe = 4
    /\ data.buttons = 12
    /\ data.switch_pe = 1

\* C2: when dma_sw_tone_gen returns to the polling loop, it has generated
\* the buffer once, sent it one or more times with one sample after each
\* send, every sample but the last without a button positive edge and the
\* last with one, then cleared the buffer and sent it as silence, then reset
\* the DMA, and the mode is Idle.
C2_ToneShape ==
    (pc = "main_sample" /\ trace # <<>> /\ trace[1] = "gen") =>
        LET k == Count(trace, "send_tone") IN
        /\ mode = "PAUSED"
        /\ k >= 1
        /\ Len(trace) = 1 + (3 * k) + 6
        /\ \A j \in 1..k :
              /\ trace[(3 * j) - 1] = "send_tone"
              /\ trace[3 * j] = "ret_send"
              /\ trace[(3 * j) + 1] =
                    (IF j = k THEN "sample_edge" ELSE "sample_noedge")
        /\ SubSeq(trace, (3 * k) + 2, Len(trace)) =
              <<"paused", "memset", "send_silence", "ret_send", "free_tone",
                "reset">>

\* A SwTone action that has returned after two sends of the tone.
C2_Witness ==
    /\ pc = "main_sample"
    /\ trace # <<>>
    /\ trace[1] = "gen"
    /\ Count(trace, "send_tone") = 2
    /\ mode = "PAUSED"

\* C3: play_wav with a zero first byte only sets the mode to Idle (no send,
\* no reset); with a nonzero first byte it does one send of dma_data, frees
\* dma_data after the send has returned, then resets the DMA, and only then
\* sets the mode to Idle.
C3_PlayShape ==
    Has(trace, "play") =>
        LET full == IF file[0] = 0
                    THEN <<"abort">>
                    ELSE <<"send_play", "ret_send", "free_play", "reset",
                           "paused">>
        IN  /\ IsPrefix(PlaySteps, full)
            /\ (pc = "main_sample" \/ pc = "recv_exit") =>
                  (PlaySteps = full /\ mode = "PAUSED")
            /\ (file[0] # 0 /\ ~Has(trace, "paused")) => mode # "PAUSED"
            /\ Has(trace, "free_play") => dma_data = <<>>

\* A playback selected by button R that has sent, freed, reset and returned.
C3_Witness ==
    /\ pc = "main_sample"
    /\ mode = "PAUSED"
    /\ trace = <<"play", "send_play", "ret_send", "free_play", "reset",
                 "paused">>

\* C4: recv_wav resets the serial FIFOs before it reads, has all 12 header
\* bytes before it requests the remainder, calls play_wav once the remainder
\* is stored, and is back in the polling loop with the mode Idle.
C4_ReceiveShape ==
    Has(trace, "fifo_reset") =>
        /\ IsPrefix(SubSeq(trace, 1, IF Len(trace) < 6 THEN Len(trace) ELSE 6),
                    <<"fifo_reset", "recv_header", "recv_done", "recv_rest",
                      "recv_done", "play">>)
        /\ pc = "recv_header" => (ur.off = 0 /\ ur.cnt = HeaderSize)
        /\ Has(trace, "recv_rest") => ur.off = HeaderSize
        /\ pc = "main_sample" =>
              /\ Has(trace, "play")
              /\ trace[Len(trace)] = "recv_exit"
              /\ mode = "PAUSED"

\* A receive that has stored a file, played it and returned.
C4_Witness ==
    /\ pc = "main_sample"
    /\ trace # <<>>
    /\ trace[1] = "fifo_reset"
    /\ Has(trace, "send_play")
    /\ mode = "PAUSED"

\* C5: dma_send returns XST_FAILURE exactly when the initiate call failed or
\* the error flag was set.
C5_SendResult ==
    Len(dlog) >= 3 =>
        ((ret = "XST_FAILURE") <=> (dlog[2] = "init_fail" \/ dlog[3] = "err"))

\* C6: every DMA call flushes first; a call that returns success has flushed
\* a second time after the error test; a call whose initiate failed or whose
\* error flag was set has not flushed a second time.
C6_FlushBracketing ==
    /\ dlog # <<>> => dlog[1] = "flush"
    /\ Len(dlog) >= 3 =>
          /\ ret = "XST_SUCCESS" =>
                (Count(dlog, "flush") = 2 /\ dlog[Len(dlog)] = "flush")
          /\ (dlog[2] = "init_fail" \/ dlog[3] = "err") =>
                Count(dlog, "flush") = 1

\* C7: after a send that failed, the mode action sends nothing more: the
\* tone loop is not entered again with a failed status, and a playback
\* whose send failed does not send again.
C7_NoSendAfterFailure ==
    /\ ~(pc = "tone_send" /\ status = "XST_FAILURE")
    /\ Count(trace, "send_play") <= 1

\* C8: a transfer is in flight only while dma_send waits for it: whenever
\* the program is at any other position (about to initiate a transfer, to
\* reset the DMA, to clear or to free a buffer) the channel is not busy.
C8_OneTransferInFlight ==
    dmaBusy => pc = "send_wait"

\* The silence transfer in flight, after the transfers of the tone.
C8_Witness ==
    /\ dmaBusy
    /\ pc = "send_wait"
    /\ sendArg.buf = "silence"
    /\ Count(trace, "send_tone") = 2

\* C9: no access of recv_wav or play_wav falls outside the AudioBuffer.
C9_AccessesInsideBuffer ==
    ~oob

\* C10: a playback sends only a buffer whose first byte a receive has made
\* nonzero; a playback selected before any file was transmitted ends at
\* once, with the mode Idle and nothing sent.
C10_NoPlayBeforeReceive ==
    /\ Has(trace, "send_play") => (nfiles > 0 /\ file[0] # 0)
    /\ (nfiles = 0 /\ Has(trace, "play")) =>
          (trace = <<"play", "abort">> /\ mode = "PAUSED"
           /\ pc = "main_sample")

\* A playback selected before any file was transmitted, back in the loop.
C10_Witness ==
    /\ nfiles = 0
    /\ file = ZeroedFile
    /\ pc = "main_sample"
    /\ trace = <<"play", "abort">>
    /\ mode = "PAUSED"

\* C11: the length asked for after the 12-byte header is the header's
\* little-endian overall_size minus 4 as a number (no wrap-around), the
\* remainder is stored from offset 12, and a receive that has stored the
\* remainder holds exactly overall_size + 8 bytes from offset 0.
C11_RemainderLength ==
    LET ov == <<file[6] + (256 * file[7]), file[4] + (256 * file[5])>>
        back == U32Add(ur.len, U32(4))
    IN  (ur.off # 0 /\ pc = "uart_recv") =>
          /\ ur.off = 12
          /\ back = ov
          /\ ~U32Lt(back, ur.len)
          /\ U32(ur.cnt) = ur.len => 12 + ur.cnt = ov[2] + 8

\* C12: while play_wav's transfer is under way and the data chunk and its
\* samples lie inside the AudioBuffer, the transfer carries exactly N/2
\* bytes, N being the size declared in the data chunk that follows the
\* format chunk of the declared fmt_chunk_size, and its i-th byte is
\* (s + 32768) >> 8 for the signed little-endian 16-bit sample s at offset
\* 12 + 8 + fmt_chunk_size + 8 + 2i.
C12_PlayPayload ==
    LET At(o) == IF o < Window THEN file[o] ELSE 0
        fmt == file[16] + (256 * file[17]) + (65536 * file[18])
        d == 12 + 8 + fmt
        N == At(d + 4) + (256 * At(d + 5)) + (65536 * At(d + 6))
        u(i) == At(d + 8 + (2 * i)) + (256 * At(d + 8 + (2 * i) + 1))
        s(i) == IF u(i) >= 32768 THEN u(i) - 65536 ELSE u(i)
    IN  ( /\ sendArg.buf = "play"
          /\ pc \in {"dma_send", "send_wait", "send_check"}
          /\ file[19] = 0 /\ At(d + 7) = 0
          /\ d + 8 + N <= max_file_size ) =>
            /\ sendArg.len = N \div 2
            /\ Len(dma_data) = N \div 2
            /\ \A i \in 0..((N \div 2) - 1) :
                  dma_data[i + 1] = (s(i) + 32768) \div 256

\* The four samples 0, -32768, 32767, 256 of the minimal file on their way
\* to the DMA as four bytes.
C12_Witness ==
    /\ pc = "send_wait"
    /\ sendArg = [buf |-> "play", len |-> 4]
    /\ file[16] = 16 /\ file[40] = 8
    /\ dma_data = <<128, 0, 255, 129>>

\* C13: the byte play_wav makes of a 16-bit sample is (s + 32768) >> 8 for
\* the signed value s of the sample's two bytes, for each of the 65536
\* values; it lies in 0..255, and 0 gives 128, -32768 gives 0 and 32767
\* gives 255.
C13_DownscaleValue ==
    LET u == file[44] + (256 * file[45])
        s == IF u >= 32768 THEN u - 65536 ELSE u
    IN  pc = "dma_send" =>
          /\ Len(dma_data) = 1
          /\ dma_data[1] = (s + 32768) \div 256
          /\ dma_data[1] \in 0..255
          /\ s = 0 => dma_data[1] = 128
          /\ s = -32768 => dma_data[1] = 0
          /\ s = 32767 => dma_data[1] = 255

\* The sample -32768 (bytes 0x00, 0x80) downscaled to 0.
C13_Witness ==
    /\ pc = "dma_send"
    /\ file[44] = 0 /\ file[45] = 128
    /\ dma_data = <<0>>

\* C14: no sample has been taken before the first call (the previous levels
\* are all zero), and every call of get_gpio_data returns, bit by bit for
\* the buttons and for the switches, pe = current AND NOT previous and
\* ne = previous AND NOT current, previous being the levels of the call
\* before, which the call replaces by the current levels; previous 0b0000
\* and current 0b0101 give pe 0b0101 and ne 0, the reverse gives pe 0 and
\* ne 0b0101.
C14_EdgeDetection ==
    /\ last = [buttons |-> 0, switches |-> 0]
    /\ [][ LET Bit(x, k) == (x \div (2 ^ k)) % 2 IN
           pc = "get_gpio_data" =>
            /\ \A k \in 0..7 :
                  /\ Bit(data'.button_pe, k) =
                        Bit(data'.buttons, k) * (1 - Bit(last.buttons, k))
                  /\ Bit(data'.button_ne, k) =
                        Bit(last.buttons, k) * (1 - Bit(data'.buttons, k))
            /\ \A k \in 0..15 :
                  /\ Bit(data'.switch_pe, k) =
                        Bit(data'.switches, k) * (1 - Bit(last.switches, k))
                  /\ Bit(data'.switch_ne, k) =
                        Bit(last.switches, k) * (1 - Bit(data'.switches, k))
            /\ {data'.button_pe, data'.button_ne} \subseteq 0..255
            /\ {data'.switch_pe, data'.switch_ne} \subseteq 0..65535
            /\ last' = [buttons |-> data'.buttons, switches |-> data'.switches]
            /\ (last.buttons = 0 /\ data'.buttons = 5) =>
                  (data'.button_pe = 5 /\ data'.button_ne = 0)
            /\ (last.buttons = 5 /\ data'.buttons = 0) =>
                  (data'.button_pe = 0 /\ data'.button_ne = 5)
            /\ (last.switches = 0 /\ data'.switches = 5) =>
                  (data'.switch_pe = 5 /\ data'.switch_ne = 0)
            /\ (last.switches = 5 /\ data'.switches = 0) =>
                  (data'.switch_pe = 0 /\ data'.switch_ne = 5) ]_vars

\* The call that reads 0b0000 after 0b0101 on the buttons and on the
\* switches.
C14_Witness ==
    /\ pc = "get_gpio_data"
    /\ data.buttons = 0 /\ data.button_pe = 0 /\ data.button_ne = 5
    /\ data.switches = 0 /\ data.switch_pe = 0 /\ data.switch_ne = 5
    /\ last = [buttons |-> 0, switches |-> 0]

\* C15: once the fourth sample of a group is stored, the two words written
\* at the consecutive indices i and i+1 are (s3 << 8) | s2 and
\* (s1 << 8) | s0 for the four samples s0..s3 of the group, their upper 16
\* bits zero, no other word is touched, and the low two bytes of word 1
\* followed by those of word 0 are the four samples in order.
C15_PackedWords ==
    LET i == tone_i - 2
        w0 == buffer[i]
        w1 == buffer[i + 1]
    IN  (pc = "tone_loop" /\ sample % 4 = 0 /\ sample > 0) =>
          /\ w0 = (Y * 256) + temp[2]
          /\ w1 = (temp[1] * 256) + temp[0]
          /\ w0 < 65536 /\ w1 < 65536
          /\ <<w1 % 256, w1 \div 256, w0 % 256, w0 \div 256>>
                = <<temp[0], temp[1], temp[2], temp[3]>>
          /\ temp[3] = Y
          /\ \A k \in 0..(ToneBufferWords - 1) :
                (k # i /\ k # i + 1) => buffer[k] = 0

\* The samples 0, 1, 2, 3 packed as 0x0302 and 0x0100 in the first two
\* words.
C15_Witness ==
    /\ pc = "tone_loop"
    /\ tone_i = 2
    /\ temp = [k \in 0..3 |-> k]
    /\ buffer[0] = 770
    /\ buffer[1] = 256

\* C16: the for loop of the tone generator never stores a sample once 256
\* samples are stored or the time has reached 48, never writes a word at or
\* beyond index 128, and ends with exactly 48 samples and exactly 24 packed
\* words; every send of the tone buffer has the length 4 * 24 = 96 bytes.
C16_TonePeriodBound ==
    /\ pc = "tone_store" =>
          /\ sample < 256 /\ time < 48
          /\ sample % 4 = 3 => tone_i + 1 < 128
    /\ pc \in {"tone_loop", "tone_store"} =>
          /\ sample <= 48 /\ time = sample
          /\ tone_i = 2 * (sample \div 4)
          /\ \A k \in 0..127 : k >= tone_i => buffer[k] = 0
    /\ pc \in {"tone_send", "tone_sample"} =>
          /\ sample = 48 /\ time = 48 /\ tone_i = 24
          /\ DOMAIN buffer = 0..127
          /\ \A k \in 0..127 : k >= 24 => buffer[k] = 0
    /\ sendArg.buf = "tone" => sendArg.len = 96

\* The second send of the 24 words, with the 48 samples of the period in
\* the buffer.
C16_Witness ==
    /\ pc = "send_wait"
    /\ sendArg = [buf |-> "tone", len |-> 96]
    /\ Count(trace, "send_tone") = 2
    /\ sample = 48 /\ tone_i = 24
    /\ buffer[0] = (175 * 256) + 159 /\ buffer[1] = (143 * 256) + 127
    /\ buffer[23] = (78 * 256) + 63

\* C17: a call of dma_receive and a call of dma_send that got the same
\* responses from the driver (the same result of the initiate call, and the
\* same error flag wherever both read it) went through the same steps and
\* returned the same result.
C17_ReceiveMirrorsSend ==
    LET End(a) == CHOOSE e \in a..Len(trace) :
                      trace[e] = "end" /\ \A j \in a..(e - 1) : trace[j] # "end"
        Done(a) == \E e \in a..Len(trace) : trace[e] = "end"
        Steps(a) == SubSeq(trace, a + 2, End(a) - 1)
    IN  \A a, b \in 1..Len(trace) :
          ( /\ trace[a] = "dma_send" /\ Done(a)
            /\ trace[b] = "dma_receive" /\ Done(b)
            /\ Steps(a)[2] = Steps(b)[2]
            /\ ~(Has(Steps(a), "err") /\ Has(Steps(b), "noerr"))
            /\ ~(Has(Steps(a), "noerr") /\ Has(Steps(b), "err")) ) =>
              Steps(a) = Steps(b)

\* C18: start-up goes on to the polling loop whether init succeeded or
\* failed (a failure is reported first); the loop is entered with the mode
\* SwTone in both cases, and the first iteration starts the tone generator
\* unless the first sample's positive edge is 0x01, 0x04 or 0x08, which
\* start nothing, recv_wav and play_wav.
C18_StartupMode ==
    /\ []( (pc = "main_sample" /\ iter = 0) =>
              /\ mode = "SW_TONE_GEN"
              /\ trace \in {<<"init_error", "sleep">>, <<"started">>} )
    /\ [][ /\ pc = "main_init" => pc' = "main_mode"
           /\ pc = "main_mode" => pc' = "main_sample"
           /\ (pc = "main_dispatch" /\ iter = 1) =>
                 pc' = CASE data.button_pe = 1 -> "main_sample"
                         [] data.button_pe = 4 -> "recv_wav"
                         [] data.button_pe = 8 -> "play_wav"
                         [] OTHER -> "tone_gen" ]_vars

\* The polling loop entered after a failed init, with the mode SwTone.
C18_Witness ==
    /\ pc = "main_sample"
    /\ iter = 0
    /\ trace = <<"init_error", "sleep">>
    /\ mode = "SW_TONE_GEN"

\* C20: whenever main begins an iteration other than the first, the mode is
\* Idle; and such an iteration starts an action only on a fresh positive
\* edge 0x04, 0x08 or 0x10 of its own sample, so a button that is held
\* starts nothing more.
C20_OneShotActions ==
    /\ []( (pc = "main_sample" /\ iter >= 1) => mode = "PAUSED" )
    /\ [][ (pc = "main_dispatch" /\ iter = 2 /\ pc' # "main_sample") =>
              data.button_pe \in {4, 8, 16} ]_vars

\* A later iteration with the buttons still held that ended the tone
\* generator: no edge, mode Idle, nothing to start.
C20_Witness ==
    /\ pc = "main_dispatch"
    /\ iter = 2
    /\ data.buttons = 12 /\ data.button_pe = 0
    /\ mode = "PAUSED"

\* uart_recv waits for a byte that the serial host will not send.
LinkSilent ==
    /\ pc = "uart_recv"
    /\ wire = <<>>
    /\ U32Lt(U32(ur.cnt), ur.len)
    /\ ~(ur.off = 0 /\ ur.cnt = 0 /\ nfiles < MaxFiles)

\* C19: every play_wav and every recv_wav that is entered comes back to the
\* polling loop with the mode Idle, unless the serial link falls silent on a
\* byte that was asked for; and no wait has a timeout: the busy-wait
\* of dma_send is left only with the channel idle, the wait of dma_reset only
\* with the reset done, uart_recv only with every byte received.
C19_ActionsReturn ==
    /\ (pc \in {"play_wav", "recv_wav"})
          ~> ((pc = "main_sample" /\ mode = "PAUSED") \/ LinkSilent)
    /\ [][ /\ (pc = "send_wait" /\ pc' # "send_wait") => ~dmaBusy
           /\ (pc = "reset_wait" /\ pc' # "reset_wait") => dmaResetDone
           /\ (pc = "uart_recv" /\ pc' # "uart_recv") =>
                 U32(ur.cnt) = ur.len ]_vars

\* recv_wav back in the polling loop after the file, the playback and the
\* DMA reset.
C19_Witness ==
    /\ pc = "main_sample"
    /\ mode = "PAUSED"
    /\ trace # <<>>
    /\ trace[Len(trace)] = "recv_exit"
    /\ Has(trace, "reset")
    /\ dmaResetDone /\ ~dmaBusy

\* C21: once a positive edge has ended the loop of the tone generator, the
\* mode is Idle from the exit on, the next sample of main reports none of
\* the buttons of that edge as a positive edge, and the mode main settles on
\* for that sample is not the mode bound to any button of that edge.
C21_ExitEdgeConsumed ==
    LET Bit(x, k) == (x \div (2 ^ k)) % 2
        ended == gpio.button_pe
    IN  ended # 0 =>
          /\ pc \notin {"tone_exit", "main_dispatch"} => mode = "PAUSED"
          /\ pc \in {"main_switch", "main_dispatch"} =>
                \A k \in 0..7 :
                   Bit(ended, k) = 1 => Bit(data.button_pe, k) = 0
          /\ pc = "main_dispatch" =>
                /\ Bit(ended, 2) = 1 => mode # "RECV_WAV_FILE"
                /\ Bit(ended, 3) = 1 => mode # "PLAY_WAV_FILE"
                /\ Bit(ended, 4) = 1 => mode # "SW_TONE_GEN"

\* The press of the ReceiveWav button that ended the tone, the button still
\* held at main's next sample: no edge, and the mode stays Idle.
C21_Witness ==
    /\ pc = "main_dispatch"
    /\ gpio.button_pe = 4
    /\ data.buttons = 4 /\ data.button_pe = 0
    /\ mode = "PAUSED"

\* ---------------------------------------------------------------------
\* Polling of the buttons: the samples of main and of the tone loop, with
\* the levels of the button inputs changing between the samples.
\* pins.now holds the levels since the latest sample (the sampled level
\* first), pins.seen the levels from the sample before to the latest one.
\* ---------------------------------------------------------------------
MaxPinChanges == 2

PollButtons == {0, 4, 16, 20}

\* A button is pressed or released while the program runs or blocks.
PinChange ==
    /\ Len(pins.now) <= MaxPinChanges
    /\ \E b \in PollButtons \ {pins.now[Len(pins.now)]} :
          pins' = [pins EXCEPT !.now = Append(@, b)]
    /\ UNCHANGED <<played, pc, stack, mode, last, data, file, wire, ur, nfiles, tone_i,
                   status, dma_data, dma_data_length, sendArg, ret, dlog,
                   trace, dmaBusy, dmaResetDone, oob, iter, sample, time, Y,
                   temp, buffer, gpio>>

\* get_gpio_data without last = data
PollSampleKeepsLast ==
    /\ pc = "main_sample"
    /\ \E s \in SwitchInputs :
          data' = get_gpio_data(last, pins.now[Len(pins.now)], s)
    /\ last' = last
    /\ pins' = [seen |-> pins.now, now |-> <<pins.now[Len(pins.now)]>>]
    /\ pc' = "main_switch"
    /\ UNCHANGED <<played, stack, mode, file, wire, ur, nfiles, tone_i, status,
                   dma_data, dma_data_length, sendArg, ret, dlog, trace,
                   dmaBusy, dmaResetDone, oob, iter, sample, time, Y, temp,
                   buffer, gpio>>

\* GpioIn_Data data = get_gpio_data(&device): the levels read are the
\* levels of the inputs at the time of the call.
PollSample ==
    /\ pc = "main_sample"
    /\ \E s \in SwitchInputs :
          /\ data' = get_gpio_data(last, pins.now[Len(pins.now)], s)
          /\ last' = [buttons |-> pins.now[Len(pins.now)], switches |-> s]
    /\ pins' = [seen |-> pins.now, now |-> <<pins.now[Len(pins.now)]>>]
    /\ pc' = "main_switch"
    /\ UNCHANGED <<played, stack, mode, file, wire, ur, nfiles, tone_i, status,
                   dma_data, dma_data_length, sendArg, ret, dlog, trace,
                   dmaBusy, dmaResetDone, oob, iter, sample, time, Y, temp,
                   buffer, gpio>>

\* switch (device.mode): recv_wav and play_wav block and return with the
\* mode PAUSED; dma_sw_tone_gen reaches its while loop; the other two
\* cases break.
PollDispatch ==
    /\ pc = "main_dispatch"
    /\ mode' = IF mode \in {"RECV_WAV_FILE", "PLAY_WAV_FILE"}
               THEN "PAUSED" ELSE mode
    /\ pc' = IF mode = "SW_TONE_GEN" THEN "poll_tone" ELSE "main_sample"
    /\ gpio' = NoData
    /\ UNCHANGED <<played, pins, stack, last, data, file, wire, ur, nfiles, tone_i,
                   status, dma_data, dma_data_length, sendArg, ret, dlog,
                   trace, dmaBusy, dmaResetDone, oob, iter, sample, time, Y,
                   temp, buffer>>

\* GpioIn_Data gpio = get_gpio_data(p_demo_inst) in the while loop
PollToneSample ==
    /\ pc = "poll_tone"
    /\ \E s \in SwitchInputs :
          /\ gpio' = get_gpio_data(last, pins.now[Len(pins.now)], s)
          /\ last' = [buttons |-> pins.now[Len(pins.now)], switches |-> s]
    /\ pins' = [seen |-> pins.now, now |-> <<pins.now[Len(pins.now)]>>]
    /\ pc' = "poll_break"
    /\ UNCHANGED <<played, stack, mode, data, file, wire, ur, nfiles, tone_i, status,
                   dma_data, dma_data_length, sendArg, ret, dlog, trace,
                   dmaBusy, dmaResetDone, oob, iter, sample, time, Y, temp,
                   buffer>>

\* if (gpio.button_pe != 0) break; after the loop the mode is PAUSED and
\* dma_sw_tone_gen returns to main.
PollToneBreak ==
    /\ pc = "poll_break"
    /\ IF ToneBreak(gpio)
       THEN mode' = "PAUSED" /\ pc' = "main_sample"
       ELSE mode' = mode /\ pc' = "poll_tone"
    /\ UNCHANGED <<played, pins, gpio, stack, last, data, file, wire, ur, nfiles,
                   tone_i, status, dma_data, dma_data_length, sendArg, ret,
                   dlog, trace, dmaBusy, dmaResetDone, oob, iter, sample,
                   time, Y, temp, buffer>>

PollNext ==
    \/ MainMode
    \/ PinChange
    \/ PollSample
    \/ MainSwitch
    \/ PollDispatch
    \/ PollToneSample
    \/ PollToneBreak

PollSpec == StartState("main_mode") /\ [][PollNext]_vars

\* C22: at every sample of the buttons (main's and the tone loop's), a
\* button reports a positive edge exactly when it was low at the sample
\* before and is high at this one, a negative edge exactly when it was high
\* at the sample before and is low at this one, never both; when every
\* button is at this sample at the level of the sample before, whatever
\* happened in between, the sample carries no edge and the mode stays as it
\* is.
C22_PollEdges ==
    [][LET Bit(x, k) == (x \div (2 ^ k)) % 2
           before == pins.seen[1]
           now    == pins.seen[Len(pins.seen)]
           r      == IF pc = "main_switch" THEN data ELSE gpio
       IN  pc \in {"main_switch", "poll_break"} =>
             /\ \A k \in 0..7 :
                   /\ Bit(r.button_pe, k) = 1
                         <=> (Bit(before, k) = 0 /\ Bit(now, k) = 1)
                   /\ Bit(r.button_ne, k) = 1
                         <=> (Bit(before, k) = 1 /\ Bit(now, k) = 0)
             /\ BitAnd(r.button_pe, r.button_ne) = 0
             /\ before = now =>
                   /\ r.button_pe = 0 /\ r.button_ne = 0
                   /\ mode' = mode
      ]_vars

\* The ReceiveWav button was pressed and released between two samples of
\* main: the sample has no edge and the mode is the one of before.
C22_Witness ==
    /\ pc = "main_dispatch"
    /\ pins.seen = <<0, 4, 0>>
    /\ data.button_pe = 0 /\ data.button_ne = 0
    /\ mode = "SW_TONE_GEN"

\* C23: main's switch on a positive-edge mask other than 0x01, 0x04, 0x08
\* and 0x10 (no edge, several buttons at once, or bit 1 alone) leaves the
\* mode as it is, and the mode is never HW_TONE_GEN.
C23_OtherMasksKeepMode ==
    [][/\ (pc = "main_switch" /\ data.button_pe \notin {1, 4, 8, 16})
             => mode' = mode
       /\ mode # "HW_TONE_GEN" /\ mode' # "HW_TONE_GEN"
      ]_vars

\* Two buttons rise in main's first sample: the mode is still the one set
\* before the loop.
C23_Witness ==
    /\ pc = "main_dispatch"
    /\ iter = 1
    /\ data.button_pe = 12
    /\ mode = "SW_TONE_GEN"

\* C24: a byte of the AudioBuffer changes only in uart_recv, called from
\* recv_wav; play_wav and dma_sw_tone_gen leave every byte as it is.  So
\* when play_wav fills its buffer and has sent one before since the latest
\* receive began, no access outside the AudioBuffer having happened, the
\* bytes it is about to send are the bytes it sent then.
C24_OnlyReceiveWrites ==
    [][/\ file' # file => (pc = "uart_recv" /\ mode = "RECV_WAV_FILE")
       /\ (pc = "play_fill" /\ played # NoPayload /\ ~oob')
             => dma_data' = played
      ]_vars

\* play_wav started from main after a receive is sending the four bytes it
\* sent at the end of that receive.
C24_Witness ==
    /\ pc = "send_wait"
    /\ sendArg.buf = "play"
    /\ mode = "PLAY_WAV_FILE"
    /\ nfiles = 1
    /\ played = <<128, 0, 255, 129>>
    /\ dma_data = played

============================================================================
